---- MODULE Spec2Model ----
(***************************************************************************)
(* Real-time fan-out and presence tracking of schmidlerChat                *)
(* (src/server/routes.ts) over the storage interface IStorage              *)
(* (src/server/storage.ts).                                                *)
(*                                                                         *)
(* Every handler of routes.ts is an async callback.  It runs without       *)
(* interruption up to an `await` of a storage promise and is resumed in a  *)
(* later step; each action below is one such run-to-await segment.  The    *)
(* storage is FileStorage: a method reads or changes the store while it is *)
(* called, inside the segment that calls it, and returns a promise.  The   *)
(* handler resumes in a later step, and other handlers run in between.  A  *)
(* promise of the interface IStorage may also reject (DatabaseStorage in   *)
(* src/server/storage.ts.new waits on a database): then the call changed   *)
(* nothing.                                                                *)
(*                                                                         *)
(* Strings are sequences of one-character strings.                         *)
(***************************************************************************)
EXTENDS Integers, Sequences, FiniteSets, TLC

\* ------------------------------------------------------------------ bounds
MaxConns == 2
MaxPayloads == 2
MaxStoreFailures == 1
MaxDeletes == 1
MaxBadSockets == 1
MaxUserId == 4
MaxMessages == 2
MaxReloads == 1
MaxLimit == 1
MaxCrowd == 4
MaxSockets == 7
MaxOpens == 1
MaxRenders == 2
MaxParty == 3
MaxRequests == 1

\* the connections the specifications open
Conns == 1..MaxConns
\* the sockets the server has room for
Sockets == 1..MaxCrowd

\* ----------------------------------------------------------------- strings
\* WhiteSpace and LineTerminator of ECMAScript, which parseInt, trim and \s
\* share; a code point with no escape in a string here is written \\uXXXX
\* and stands for that one character
IsSpace(ch) ==
  ch \in {" ", "\t", "\n", "\r", "\f", "\\u000B", "\\u00A0", "\\uFEFF",
          "\\u1680", "\\u2000", "\\u2001", "\\u2002", "\\u2003", "\\u2004",
          "\\u2005", "\\u2006", "\\u2007", "\\u2008", "\\u2009", "\\u200A",
          "\\u2028", "\\u2029", "\\u202F", "\\u205F", "\\u3000"}

DigitVal(ch) ==
  CASE ch = "0" -> 0 [] ch = "1" -> 1 [] ch = "2" -> 2 [] ch = "3" -> 3
    [] ch = "4" -> 4 [] ch = "5" -> 5 [] ch = "6" -> 6 [] ch = "7" -> 7
    [] ch = "8" -> 8 [] ch = "9" -> 9
    [] ch \in {"a", "A"} -> 10 [] ch \in {"b", "B"} -> 11
    [] ch \in {"c", "C"} -> 12 [] ch \in {"d", "D"} -> 13
    [] ch \in {"e", "E"} -> 14 [] ch \in {"f", "F"} -> 15
    [] OTHER -> 99

RECURSIVE TrimStart(_)
TrimStart(s) ==
  IF s # <<>> /\ IsSpace(Head(s)) THEN TrimStart(Tail(s)) ELSE s

RECURSIVE TrimEnd(_)
TrimEnd(s) ==
  IF s # <<>> /\ IsSpace(s[Len(s)]) THEN TrimEnd(SubSeq(s, 1, Len(s) - 1)) ELSE s

Trim(s) == TrimEnd(TrimStart(s))

\* the leading digits of s in the given radix, folded left to right
RECURSIVE DigitsPrefix(_, _, _, _)
DigitsPrefix(s, radix, acc, n) ==
  IF s # <<>> /\ DigitVal(Head(s)) < radix
  THEN DigitsPrefix(Tail(s), radix, acc * radix + DigitVal(Head(s)), n + 1)
  ELSE [val |-> acc, count |-> n]

NaN == [nan |-> TRUE, val |-> 0]

\* parseInt(string) of ECMAScript with no radix argument
parseInt(str) ==
  LET t == TrimStart(str)
      neg == t # <<>> /\ Head(t) = "-"
      u == IF t # <<>> /\ Head(t) \in {"-", "+"} THEN Tail(t) ELSE t
      hex == Len(u) >= 2 /\ u[1] = "0" /\ u[2] \in {"x", "X"}
      d == IF hex THEN DigitsPrefix(Tail(Tail(u)), 16, 0, 0)
                  ELSE DigitsPrefix(u, 10, 0, 0)
  IN IF d.count = 0 THEN NaN
     ELSE [nan |-> FALSE, val |-> IF neg THEN 0 - d.val ELSE d.val]

\* ------------------------------------------------------------------- state
VARIABLES
  users,          \* FileStorage.users: sequence of [id, username]
  messages,       \* FileStorage.messages: sequence of stored messages
  nextMessageId,  \* FileStorage.nextMessageId
  clients,        \* the Map clients of routes.ts, in insertion order: [id, ws]
  sock,           \* each socket: "none" (not yet accepted), "open", "closing" (the server's close
                  \* frame is out), "closeReceived" (the client's close frame is in), "closed"
  pc,             \* position of each socket's connection handler
  param,          \* the userId query parameter the socket was opened with
  userId,         \* the handler's const userId (0 before it is parsed)
  allUsers,       \* the handler's const allUsers
  user,           \* the handler's let user (what getUser read, until line 136 runs)
  statusUsers,    \* const users of the handler's broadcastUserStatus call
  closeCode,      \* code of the handler's ws.close call (0 while it made none)
  sendThrows,     \* whether ws.send of this socket throws
  tasks,          \* the runs of the "message" handler, in receipt order
  pendingStatus,  \* const users of each broadcastUserStatus call of a "close" listener still awaiting
  inbox,          \* frames delivered to each socket, in order
  failures,       \* storage promises rejected so far
  unhandled,      \* a rejection of a "close" listener is unhandled: the process ends
                  \* when the handlers that can resume have resumed
  stale,          \* history: the registry changed after the last presence snapshot was computed
  deletes,        \* deleteUserByUsername calls so far
  pendingUsers,   \* const users of each GET /api/users handler still awaiting getAllUsers
  usersReply,     \* the response of the last GET /api/users handler that answered
  nextUserId,     \* FileStorage.nextUserId
  assigned,       \* history: the ids that createUser or the initial data gave to a user
  usersFile,      \* the file USERS_FILE: absent, or the users last saved
  messagesFile,   \* the file MESSAGES_FILE: absent, or the messages last saved
  reloads,        \* restarts of the server process so far
  reply,          \* what the last getMessages call returned, per backend
  mounted,        \* the component using useWebSocket: "initial", "mounted",
                  \* "unmounting" (removed, the cleanup of its effect not yet run), "unmounted"
  reconnectCount, \* the hook's state reconnectCount
  renders,        \* renders after the first, so far
  pendingEffect,  \* the effect of the last render while it has not run: the
                  \* reconnectCount and the url its connect closes over
  sockets,        \* the WebSockets the hook created: [readyState, count, opened]
  webSocketRef,   \* webSocketRef.current: index into sockets, 0 for null
  timers,         \* the timeouts the hook set: [count, pending]
  reconnectTimeoutRef  \* reconnectTimeoutRef.current: index into timers, 0 for null

fileVars == <<nextUserId, assigned, usersFile, messagesFile, reloads, reply>>
hookVars == <<mounted, reconnectCount, renders, pendingEffect, sockets,
              webSocketRef, timers, reconnectTimeoutRef>>
httpVars == <<pendingUsers, usersReply>>
serverVars == <<clients, sock, pc, param, userId, allUsers, user, statusUsers,
                closeCode, sendThrows, tasks, pendingStatus, inbox, failures,
                unhandled, stale, httpVars>>

vars == <<users, messages, nextMessageId, clients, sock, pc, param, userId,
          allUsers, user, statusUsers, closeCode, sendThrows, tasks,
          pendingStatus, inbox, failures, unhandled, stale, deletes, httpVars,
          fileVars, hookVars>>

storeVars == <<users, messages, nextMessageId>>
connVars == <<pc, param, userId, allUsers, user, statusUsers, sendThrows>>

\* ------------------------------------------------------------------ inputs
\* an upgrade request: whether new URL(req.url, `http://${req.headers.host}`)
\* makes a URL of it, and what searchParams.get('userId') gives then
NoParam == [url |-> TRUE, present |-> FALSE, str |-> <<>>]
Param(s) == [url |-> TRUE, present |-> TRUE, str |-> s]

\* a request whose Host header is no host: new URL throws
BadUrl == [url |-> FALSE, present |-> FALSE, str |-> <<>>]

\* searchParams.get('userId'): absent, or a string
Params ==
  { NoParam, Param(<<>>), Param(<<"x">>), Param(<<"0">>), Param(<<"-", "1">>),
    Param(<<"1">>), Param(<<"2">>), Param(<<"3">>), Param(<<"\f", "3">>),
    Param(<<"9">>), BadUrl }

Undefined == [t |-> "undefined", s |-> <<>>]
Number == [t |-> "number", s |-> <<>>]
Str(s) == [t |-> "string", s |-> s]

\* values of data.content in an inbound frame
Contents ==
  { Undefined, Number, Str(<<>>), Str(<<"h">>),
    Str(<<"@", "b", " ", "s">>), Str(<<"@", "z", " ", "s">>) }

\* an inbound frame: text JSON.parse rejects, or an object with a content field
BadJson == [json |-> FALSE, content |-> Undefined]
Payload(c) == [json |-> TRUE, content |-> c]
Payloads == {BadJson} \cup {Payload(c) : c \in Contents}

\* an inbound frame that also carries a userId field of the client's choosing
Forged(c, uid) == [json |-> TRUE, content |-> c, userId |-> uid]

NoUser == [id |-> 0, username |-> <<>>]
NoMessage == [id |-> 0, content |-> <<>>, userId |-> 0, timestamp |-> 0,
              isPrivate |-> FALSE, recipientId |-> 0]

\* ------------------------------------------------------------- the storage
RECURSIVE find(_, _)
\* Array.prototype.find(u => u.id === id), NoUser for undefined
find(us, id) ==
  IF us = <<>> THEN NoUser
  ELSE IF Head(us).id = id THEN Head(us) ELSE find(Tail(us), id)

getUser(id) == find(users, id)

getAllUsers == users

RECURSIVE findUsername(_, _)
\* Array.prototype.find(u => u.username === name), NoUser for undefined
findUsername(us, name) ==
  IF us = <<>> THEN NoUser
  ELSE IF Head(us).username = name THEN Head(us) ELSE findUsername(Tail(us), name)

getUserByUsername(name) == findUsername(users, name)

\* the private-addressing convention: "@<token>", whitespace, the remainder
RECURSIVE Word(_)
Word(s) ==
  IF s = <<>> \/ IsSpace(Head(s)) THEN <<>> ELSE <<Head(s)>> \o Word(Tail(s))

Addressee(s) == IF s # <<>> /\ Head(s) = "@" THEN Word(Tail(s)) ELSE <<>>

Remainder(s) == Trim(SubSeq(s, Len(Addressee(s)) + 2, Len(s)))

Recipient(s) ==
  IF Addressee(s) # <<>> /\ Remainder(s) # <<>>
  THEN getUserByUsername(Addressee(s))
  ELSE NoUser

RECURSIVE filterUsername(_, _)
filterUsername(us, name) ==
  IF us = <<>> THEN <<>>
  ELSE IF Head(us).username # name
       THEN <<Head(us)>> \o filterUsername(Tail(us), name)
       ELSE filterUsername(Tail(us), name)

\* new Date(): the millisecond clock does not run backwards, and two calls
\* made within one millisecond read the same time
Now ==
  IF messages = <<>> THEN {1}
  ELSE {messages[Len(messages)].timestamp, messages[Len(messages)].timestamp + 1}

\* as createMessage, but an @<token> prefix is taken off the content
createMessageStripped(content, uid, now) ==
  [id |-> nextMessageId,
   content |-> IF Addressee(content) # <<>> /\ Remainder(content) # <<>>
               THEN Remainder(content) ELSE content,
   userId |-> uid, timestamp |-> now, isPrivate |-> FALSE,
   recipientId |-> 0]

\* insertMessage is {content, userId}: isPrivate and recipientId are undefined
createMessage(content, uid, now) ==
  [id |-> nextMessageId, content |-> content, userId |-> uid,
   timestamp |-> now, isPrivate |-> FALSE, recipientId |-> 0]

\* insertMessageSchema.safeParse({content, userId}).success: content is text
\* notNull (any string), userId is the bound integer
safeParse(content) == content.t = "string"

\* ------------------------------------------------------------ the registry
RECURSIVE clientsHas(_, _)
clientsHas(cl, id) ==
  IF cl = <<>> THEN FALSE
  ELSE Head(cl).id = id \/ clientsHas(Tail(cl), id)

RECURSIVE clientsDelete(_, _)
clientsDelete(cl, id) ==
  IF cl = <<>> THEN <<>>
  ELSE IF Head(cl).id = id THEN Tail(cl)
       ELSE <<Head(cl)>> \o clientsDelete(Tail(cl), id)

\* as clientsSet, but an entry is added whether or not the key exists
clientsSetAppend(cl, id, ws) == Append(cl, [id |-> id, ws |-> ws])

RECURSIVE clientsSet(_, _, _)
\* Map.set: an existing key keeps its place and gets the new value
clientsSet(cl, id, ws) ==
  IF cl = <<>> THEN <<[id |-> id, ws |-> ws]>>
  ELSE IF Head(cl).id = id THEN <<[id |-> id, ws |-> ws]>> \o Tail(cl)
       ELSE <<Head(cl)>> \o clientsSet(Tail(cl), id, ws)

\* ------------------------------------------------------------------ frames
Online == "online"
Offline == "offline"

\* users.map(user => ({id, username, name, status})) of broadcastUserStatus
userStatuses(us, cl) ==
  [i \in 1..Len(us) |->
     [id |-> us[i].id, username |-> us[i].username,
      status |-> IF clientsHas(cl, us[i].id) THEN Online ELSE Offline]]

StatusFrame(us, cl) == [type |-> "user_status", users |-> userStatuses(us, cl)]

\* the ChatMessage built from the stored message and the handler's user
MessageFrame(m, u) ==
  [type |-> "message", content |-> m.content, userId |-> m.userId,
   username |-> u.username, timestamp |-> m.timestamp]

ErrorFrame(text) == [type |-> "error", error |-> text]

WelcomeFrame == [type |-> "connection_success"]

RECURSIVE broadcast(_, _, _)
\* clients.forEach(client => { if (client.readyState === OPEN) client.send(..) })
\* over the entries cl, starting from the inboxes ib: the inboxes after it,
\* and whether a send threw (which ends the forEach)
broadcast(cl, frame, ib) ==
  IF cl = <<>> THEN [inbox |-> ib, threw |-> FALSE]
  ELSE LET client == Head(cl).ws IN
       IF sock[client] = "open"
       THEN IF sendThrows[client]
            THEN [inbox |-> ib, threw |-> TRUE]
            ELSE broadcast(Tail(cl), frame, [ib EXCEPT ![client] = Append(@, frame)])
       ELSE broadcast(Tail(cl), frame, ib)

\* as send, but the frame goes to every registered socket
sendToAll(ws, frame, ib) == broadcast(clients, frame, ib).inbox

\* ws.send(frame) outside broadcast: delivered if the socket is open and its
\* send does not throw; a send after close is dropped
send(ws, frame, ib) ==
  IF sock[ws] = "open" /\ ~sendThrows[ws]
  THEN [ib EXCEPT ![ws] = Append(@, frame)]
  ELSE ib

\* ------------------------------------------------------------------- files
\* a data file: absent, or the records of the last fs.writeFileSync; what
\* JSON.stringify writes, JSON.parse (and new Date for a timestamp) reads back
NoFile == [exists |-> FALSE, data |-> <<>>]
File(records) == [exists |-> TRUE, data |-> records]

\* no GET /api/users request was answered yet
NoResponse == [status |-> 0, users |-> <<>>]

\* no getMessages call was made yet
NoReply == [asked |-> FALSE]

\* ------------------------------------------------------------------- Init
Init ==
  /\ users = << [id |-> 1, username |-> <<"a">>],
                [id |-> 2, username |-> <<"b">>],
                [id |-> 3, username |-> <<"c">>] >>
  /\ messages = <<>>
  /\ nextMessageId = 1
  /\ clients = <<>>
  /\ sock = [c \in Sockets |-> "none"]
  /\ pc = [c \in Sockets |-> "none"]
  /\ param = [c \in Sockets |-> NoParam]
  /\ userId = [c \in Sockets |-> 0]
  /\ allUsers = [c \in Sockets |-> <<>>]
  /\ user = [c \in Sockets |-> NoUser]
  /\ statusUsers = [c \in Sockets |-> <<>>]
  /\ closeCode = [c \in Sockets |-> 0]
  /\ sendThrows = [c \in Sockets |-> FALSE]
  /\ tasks = <<>>
  /\ pendingStatus = <<>>
  /\ inbox = [c \in Sockets |-> <<>>]
  /\ failures = 0
  /\ unhandled = FALSE
  /\ stale = FALSE
  /\ deletes = 0
  /\ pendingUsers = <<>>
  /\ usersReply = NoResponse
  /\ nextUserId = 4
  /\ assigned = {1, 2, 3}
  /\ usersFile = File(users)
  /\ messagesFile = NoFile
  /\ reloads = 0
  /\ reply = NoReply
  /\ mounted = "initial"
  /\ reconnectCount = 0
  /\ renders = 0
  /\ pendingEffect = <<>>
  /\ sockets = <<>>
  /\ webSocketRef = 0
  /\ timers = <<>>
  /\ reconnectTimeoutRef = 0

\* ------------------------------------------- wss.on("connection") handler
PolicyViolation == 1008
ServerError == 1011

\* if (!userIdStr)
missingUserId(p) == ~p.present \/ p.str = <<>>

\* if (isNaN(userId) || userId <= 0)
invalidUserId(n) == n.nan \/ n.val <= 0

\* ws.close(code) by the handler before any "close" listener is attached: a
\* socket the client has closed already stays as it is
closeSocket(c, code) ==
  /\ closeCode' = [closeCode EXCEPT ![c] = code]
  /\ sock' = [sock EXCEPT ![c] = "closed"]

\* the server process is up: no unhandled rejection has ended it
Running == \A c \in Sockets : pc[c] # "exited"

\* lines 108-130: the socket is accepted; new URL throws into the catch of
\* lines 222-225, or the parameter is checked and getAllUsers called: it reads
\* the list of users now
Accept(c, p, bad) ==
  /\ Running /\ ~unhandled
  /\ sock[c] = "none"
  /\ \A d \in 1..(c - 1) : sock[d] # "none"
  /\ bad => Cardinality({d \in Sockets : sendThrows[d]}) < MaxBadSockets
  /\ param' = [param EXCEPT ![c] = p]
  /\ sendThrows' = [sendThrows EXCEPT ![c] = bad]
  /\ IF ~p.url
     THEN /\ closeSocket(c, ServerError)
          /\ pc' = [pc EXCEPT ![c] = "failed"]
          /\ UNCHANGED <<userId, allUsers>>
     ELSE IF missingUserId(p) \/ invalidUserId(parseInt(p.str))
     THEN /\ closeSocket(c, PolicyViolation)
          /\ pc' = [pc EXCEPT ![c] = "rejected"]
          /\ UNCHANGED <<userId, allUsers>>
     ELSE /\ sock' = [sock EXCEPT ![c] = "open"]
          /\ userId' = [userId EXCEPT ![c] = parseInt(p.str).val]
          /\ allUsers' = [allUsers EXCEPT ![c] = getAllUsers]
          /\ pc' = [pc EXCEPT ![c] = "getAllUsers"]
          /\ UNCHANGED closeCode
  /\ UNCHANGED <<storeVars, clients, user, statusUsers, tasks, pendingStatus,
                 inbox, failures, unhandled, stale, deletes>>
  /\ UNCHANGED <<fileVars, hookVars, httpVars>>

\* line 130 resumes with the list; getUser is called (line 134): it looks
\* the user up now
LookupAll(c) ==
  /\ pc[c] = "getAllUsers"
  /\ user' = [user EXCEPT ![c] = getUser(userId[c])]
  /\ pc' = [pc EXCEPT ![c] = "getUser"]
  /\ UNCHANGED <<storeVars, clients, sock, param, userId, allUsers, statusUsers,
                 closeCode, sendThrows, tasks, pendingStatus, inbox, failures,
                 unhandled, stale, deletes>>
  /\ UNCHANGED <<fileVars, hookVars, httpVars>>

\* the user bound at lines 134-148: the one getUser gave, else the one of
\* allUsers
resolveUser(c) ==
  IF user[c] # NoUser THEN user[c]
  ELSE find(allUsers[c], userId[c])

\* lines 134-156: line 134 resumes; an unknown user closes 1008, a known one
\* is registered and broadcastUserStatus is called, whose getAllUsers (line
\* 93) reads the list of users now
LookupUser(c) ==
  /\ pc[c] = "getUser"
  /\ IF resolveUser(c) = NoUser
     THEN /\ closeSocket(c, PolicyViolation)
          /\ pc' = [pc EXCEPT ![c] = "rejected"]
          /\ UNCHANGED <<user, clients, statusUsers, stale>>
     ELSE /\ user' = [user EXCEPT ![c] = resolveUser(c)]
          /\ clients' = clientsSet(clients, userId[c], c)
          /\ stale' = TRUE
          /\ statusUsers' = [statusUsers EXCEPT ![c] = getAllUsers]
          /\ pc' = [pc EXCEPT ![c] = "broadcastUserStatus"]
          /\ UNCHANGED <<sock, closeCode>>
  /\ UNCHANGED <<storeVars, param, userId, allUsers, sendThrows, tasks,
                 pendingStatus, inbox, failures, unhandled, deletes>>
  /\ UNCHANGED <<fileVars, hookVars, httpVars>>

\* lines 222-225: a storage promise awaited by the handler rejects; the
\* handler ends "failed" before the registration, "aborted" after it
EstablishFails(c) ==
  /\ pc[c] \in {"getAllUsers", "getUser", "broadcastUserStatus"}
  /\ failures < MaxStoreFailures
  /\ failures' = failures + 1
  /\ closeSocket(c, ServerError)
  /\ pc' = [pc EXCEPT ![c] = IF pc[c] = "broadcastUserStatus" THEN "aborted" ELSE "failed"]
  /\ UNCHANGED <<storeVars, clients, param, userId, allUsers, user, statusUsers,
                 sendThrows, tasks, pendingStatus, inbox, unhandled, stale,
                 deletes>>
  /\ UNCHANGED <<fileVars, hookVars, httpVars>>

\* lines 93-104 of the handler's broadcastUserStatus resume: the statuses are
\* read from the registry as it is now and the snapshot is broadcast; the
\* handler itself (line 156) resumes a step later, by the catch if a send threw
BroadcastUserStatus(c) ==
  /\ pc[c] = "broadcastUserStatus"
  /\ LET r == broadcast(clients, StatusFrame(statusUsers[c], clients), inbox) IN
       /\ inbox' = r.inbox
       /\ pc' = [pc EXCEPT ![c] = IF r.threw THEN "catch" ELSE "listen"]
  /\ stale' = FALSE
  /\ UNCHANGED <<storeVars, clients, sock, closeCode, param, userId, allUsers,
                 user, statusUsers, sendThrows, tasks, pendingStatus, failures,
                 unhandled, deletes>>
  /\ UNCHANGED <<fileVars, hookVars, httpVars>>

\* lines 158-225: line 156 resumes; the listeners are attached and the welcome
\* frame is sent, or the catch closes the socket with 1011
Establish(c) ==
  /\ pc[c] \in {"listen", "catch"}
  /\ IF pc[c] = "catch"
     THEN /\ closeSocket(c, ServerError)
          /\ pc' = [pc EXCEPT ![c] = "aborted"]
          /\ UNCHANGED inbox
     ELSE /\ pc' = [pc EXCEPT ![c] = "bound"]
          /\ IF sock[c] = "open" /\ sendThrows[c]
             THEN /\ sock' = [sock EXCEPT ![c] = "closing"]
                  /\ closeCode' = [closeCode EXCEPT ![c] = ServerError]
                  /\ UNCHANGED inbox
             ELSE /\ inbox' = send(c, WelcomeFrame, inbox)
                  /\ UNCHANGED <<sock, closeCode>>
  /\ UNCHANGED <<storeVars, clients, param, userId, allUsers, user, statusUsers,
                 sendThrows, tasks, pendingStatus, failures, unhandled, stale,
                 deletes>>
  /\ UNCHANGED <<fileVars, hookVars, httpVars>>

\* the closing handshake of a client: ws reads the client's close frame and
\* answers it; readyState is CLOSING from now on, no further frame of the
\* client is read, and "close" is emitted only when the stream has ended
CloseFrame(c) ==
  /\ ~unhandled
  /\ sock[c] = "open"
  /\ sock' = [sock EXCEPT ![c] = "closeReceived"]
  /\ UNCHANGED <<storeVars, clients, closeCode, connVars, tasks, pendingStatus,
                 inbox, failures, unhandled, stale, deletes>>
  /\ UNCHANGED <<fileVars, hookVars, httpVars>>

\* the stream of a socket in its closing handshake has ended and ws emits
\* "close": lines 210-213 run if the listener is attached, up to the
\* getAllUsers of broadcastUserStatus, which reads the list of users now
Close(c) ==
  /\ ~unhandled
  /\ sock[c] \in {"closing", "closeReceived"}
  /\ sock' = [sock EXCEPT ![c] = "closed"]
  /\ IF pc[c] = "bound"
     THEN /\ clients' = clientsDelete(clients, userId[c])
          /\ stale' = TRUE
          /\ pendingStatus' = Append(pendingStatus, getAllUsers)
     ELSE UNCHANGED <<clients, pendingStatus, stale>>
  /\ UNCHANGED <<storeVars, closeCode, connVars, tasks, inbox, failures,
                 unhandled, deletes>>
  /\ UNCHANGED <<fileVars, hookVars, httpVars>>

\* a sequence without its i-th element
Remove(q, i) == SubSeq(q, 1, i - 1) \o SubSeq(q, i + 1, Len(q))

\* lines 93-104 of a "close" listener resume: the snapshot is computed and
\* broadcast and the listener ends.  A send that throws rejects
\* broadcastUserStatus and with it the listener of line 210, whose await
\* (line 213) is in no try: the rejection is unhandled
CloseStatus ==
  \E i \in 1..Len(pendingStatus) :
    LET r == broadcast(clients, StatusFrame(pendingStatus[i], clients), inbox) IN
      /\ inbox' = r.inbox
      /\ pendingStatus' = Remove(pendingStatus, i)
      /\ unhandled' = (unhandled \/ r.threw)
      /\ stale' = FALSE
      /\ UNCHANGED <<storeVars, clients, sock, pc, tasks, closeCode, param,
                     userId, allUsers, user, statusUsers, sendThrows, failures,
                     deletes>>
      /\ UNCHANGED <<fileVars, hookVars, httpVars>>

\* getAllUsers of a "close" listener rejects: broadcastUserStatus rejects and
\* so does the listener
CloseStatusFails ==
  /\ failures < MaxStoreFailures
  /\ failures' = failures + 1
  /\ \E i \in 1..Len(pendingStatus) : pendingStatus' = Remove(pendingStatus, i)
  /\ unhandled' = TRUE
  /\ UNCHANGED <<storeVars, clients, sock, pc, tasks, closeCode, param, userId,
                 allUsers, user, statusUsers, sendThrows, inbox, stale, deletes>>
  /\ UNCHANGED <<fileVars, hookVars, httpVars>>

\* node reports the unhandled rejection when the microtask queue has
\* drained, that is after every handler whose promise had settled has
\* resumed, and before any further event is read: the process ends.  Its
\* registry and its handlers are gone and every socket is closed.  A handler
\* whose promise has not settled by then never resumes.
unhandledRejection ==
  /\ unhandled
  /\ Running
  /\ pendingStatus' = <<>>
  /\ clients' = <<>>
  /\ tasks' = <<>>
  /\ sock' = [c \in Sockets |-> IF sock[c] = "none" THEN "none" ELSE "closed"]
  /\ pc' = [c \in Sockets |->
              IF pc[c] \in {"none", "rejected", "failed", "aborted"} THEN pc[c]
              ELSE "exited"]
  /\ UNCHANGED <<storeVars, closeCode, param, userId, allUsers, user,
                 statusUsers, sendThrows, inbox, failures, unhandled, stale,
                 deletes>>
  /\ UNCHANGED <<fileVars, hookVars, httpVars>>

\* ------------------------------------------------ ws.on("message") handler
Task(ws, p, at, m) == [ws |-> ws, payload |-> p, pc |-> at, message |-> m]

\* as senderId, but a userId field of the payload is believed
senderIdClaimed(ws, p) ==
  IF "userId" \in DOMAIN p THEN p.userId ELSE userId[ws]

\* the userId given to safeParse and createMessage (lines 167 and 182): the
\* const userId of the connection handler, never a field of the payload
senderId(ws, p) == userId[ws]

\* lines 160-183 up to the await, for a frame of a socket whose listeners are
\* attached and that has not read a close frame (after the server's own
\* ws.close frames still arrive): the frame is parsed and validated, an
\* invalid one is answered with an error frame, for a valid one createMessage
\* is called: FileStorage.createMessage stores the message and writes the
\* file before it returns its promise
Receive(c, p) ==
  /\ ~unhandled
  /\ pc[c] = "bound"
  /\ sock[c] \in {"open", "closing"}
  /\ Len(tasks) < MaxPayloads
  /\ IF ~p.json
     THEN /\ inbox' = send(c, ErrorFrame("Failed to process message"), inbox)
          /\ tasks' = Append(tasks, Task(c, p, "unparsed", NoMessage))
          /\ UNCHANGED <<storeVars, messagesFile>>
     ELSE IF ~safeParse(p.content)
     THEN /\ inbox' = send(c, ErrorFrame("Invalid message format"), inbox)
          /\ tasks' = Append(tasks, Task(c, p, "invalid", NoMessage))
          /\ UNCHANGED <<storeVars, messagesFile>>
     ELSE \E now \in Now :
            LET m == createMessage(p.content.s, senderId(c, p), now) IN
              /\ messages' = Append(messages, m)
              /\ nextMessageId' = nextMessageId + 1
              /\ messagesFile' = File(messages')
              /\ tasks' = Append(tasks, Task(c, p, "stored", m))
              /\ UNCHANGED <<users, inbox>>
  /\ UNCHANGED <<clients, sock, closeCode, connVars, pendingStatus, failures,
                 unhandled, stale, deletes>>
  /\ UNCHANGED <<nextUserId, assigned, usersFile, reloads, reply, hookVars, httpVars>>

\* lines 160-183 for a valid frame whose createMessage promise will reject:
\* nothing is stored
ReceiveRejected(c, p) ==
  /\ ~unhandled
  /\ pc[c] = "bound"
  /\ sock[c] \in {"open", "closing"}
  /\ Len(tasks) < MaxPayloads
  /\ p.json /\ safeParse(p.content)
  /\ failures < MaxStoreFailures
  /\ failures' = failures + 1
  /\ tasks' = Append(tasks, Task(c, p, "rejected", NoMessage))
  /\ UNCHANGED <<storeVars, clients, sock, closeCode, connVars, pendingStatus,
                 inbox, unhandled, stale, deletes>>
  /\ UNCHANGED <<fileVars, hookVars, httpVars>>

\* as resumes, but the handler goes on as well when createMessage rejected
resumesUnawaited(t) == t.pc \in {"stored", "rejected"}

\* the handler is past `await storage.createMessage(..)` (lines 180-185) once
\* the promise is fulfilled
resumes(t) == t.pc = "stored"

\* lines 185-198: the handler resumes with the stored message and broadcasts
\* it; a send that throws lands in the catch of lines 200-206
Deliver(i) ==
  /\ i \in 1..Len(tasks)
  /\ resumes(tasks[i])
  /\ LET r == broadcast(clients, MessageFrame(tasks[i].message, user[tasks[i].ws]), inbox) IN
       /\ inbox' = IF r.threw
                   THEN send(tasks[i].ws, ErrorFrame("Failed to process message"), r.inbox)
                   ELSE r.inbox
       /\ tasks' = [tasks EXCEPT ![i].pc = IF r.threw THEN "thrown" ELSE "done"]
  /\ UNCHANGED <<storeVars, clients, sock, closeCode, connVars, pendingStatus,
                 failures, unhandled, stale, deletes>>
  /\ UNCHANGED <<fileVars, hookVars, httpVars>>

\* lines 200-206: the handler resumes with the rejection
Catch(i) ==
  /\ i \in 1..Len(tasks)
  /\ tasks[i].pc = "rejected"
  /\ inbox' = send(tasks[i].ws, ErrorFrame("Failed to process message"), inbox)
  /\ tasks' = [tasks EXCEPT ![i].pc = "failed"]
  /\ UNCHANGED <<storeVars, clients, sock, closeCode, connVars, pendingStatus,
                 failures, unhandled, stale, deletes>>
  /\ UNCHANGED <<fileVars, hookVars, httpVars>>

\* --------------------------------------------------------- the user store
\* FileStorage.deleteUserByUsername
deleteUserByUsername(name) ==
  /\ Running /\ ~unhandled
  /\ deletes < MaxDeletes
  /\ deletes' = deletes + 1
  /\ users' = filterUsername(users, name)
  /\ UNCHANGED <<messages, nextMessageId, clients, sock, closeCode, connVars,
                 tasks, pendingStatus, inbox, failures, unhandled, stale>>
  /\ usersFile' = IF Len(users') < Len(users) THEN File(users') ELSE usersFile
  /\ UNCHANGED <<nextUserId, assigned, messagesFile, reloads, reply, hookVars, httpVars>>

\* ------------------------------------------------ GET /api/users handler
Unauthorized == 401
Ok == 200

\* lines 62-64: a request that is not authenticated is answered 401; for an
\* authenticated one getAllUsers is called, which reads the list of users now
GetUsers(isAuthenticated) ==
  /\ Running /\ ~unhandled
  /\ IF ~isAuthenticated
     THEN /\ usersReply' = [status |-> Unauthorized, users |-> <<>>]
          /\ UNCHANGED pendingUsers
     ELSE /\ Len(pendingUsers) < MaxRequests
          /\ pendingUsers' = Append(pendingUsers, getAllUsers)
          /\ UNCHANGED usersReply
  /\ UNCHANGED <<storeVars, clients, sock, closeCode, connVars, tasks, pendingStatus,
                 inbox, failures, unhandled, stale, deletes>>
  /\ UNCHANGED <<fileVars, hookVars>>

\* lines 64-70: line 64 resumes with the list; each user gets the status
\* clients.has gives now and the list is the response
UsersReply ==
  /\ Running
  /\ \E i \in 1..Len(pendingUsers) :
       /\ usersReply' = [status |-> Ok, users |-> userStatuses(pendingUsers[i], clients)]
       /\ pendingUsers' = Remove(pendingUsers, i)
  /\ UNCHANGED <<storeVars, clients, sock, closeCode, connVars, tasks, pendingStatus,
                 inbox, failures, unhandled, stale, deletes>>
  /\ UNCHANGED <<fileVars, hookVars>>

\* ------------------------------------------------- the storage, called directly
\* Math.max(...records.map(r => r.id)) of a non-empty list
RECURSIVE maxId(_)
maxId(records) ==
  IF Len(records) = 1 THEN Head(records).id
  ELSE LET rest == maxId(Tail(records)) IN
       IF Head(records).id > rest THEN Head(records).id ELSE rest

\* as nextId, but the ids of the loaded records are not looked at
nextIdFresh(records) == 1

\* the id counter after loadData: 1 of the field initialiser, or one more
\* than the highest id loaded (lines 61-64 and 81-84)
nextId(records) == IF records = <<>> THEN 1 ELSE maxId(records) + 1

\* an InsertMessage; recipientId 0 stands for null or undefined
Insert(content, uid, private, recipient) ==
  [content |-> content, userId |-> uid, isPrivate |-> private, recipientId |-> recipient]

Inserts(uid) ==
  { Insert(<<"h">>, uid, FALSE, 0), Insert(<<"s">>, uid, TRUE, 1),
    Insert(<<"s">>, uid, TRUE, 2) }

\* const newMessage of FileStorage.createMessage (lines 173-179)
newMessage(insertMessage, now) ==
  [id |-> nextMessageId, content |-> insertMessage.content,
   userId |-> insertMessage.userId, timestamp |-> now,
   isPrivate |-> insertMessage.isPrivate, recipientId |-> insertMessage.recipientId]

\* FileStorage.createUser
CreateUser(name) ==
  /\ nextUserId <= MaxUserId
  /\ users' = Append(users, [id |-> nextUserId, username |-> name])
  /\ nextUserId' = nextUserId + 1
  /\ assigned' = assigned \cup {nextUserId}
  /\ usersFile' = File(users')
  /\ UNCHANGED <<messages, nextMessageId, serverVars, deletes, messagesFile,
                 reloads, reply, hookVars>>

\* FileStorage.createMessage called with any InsertMessage: the userId is
\* not looked up
CreateMessage(ins) ==
  /\ Len(messages) < MaxMessages
  /\ \E now \in Now : messages' = Append(messages, newMessage(ins, now))
  /\ nextMessageId' = nextMessageId + 1
  /\ messagesFile' = File(messages')
  /\ UNCHANGED <<users, serverVars, deletes, nextUserId, assigned, usersFile, reloads,
                 reply, hookVars>>

\* the server process restarts with no connection open: new FileStorage()
\* runs loadData (lines 53-91) on the files as they are
Reload ==
  /\ reloads < MaxReloads
  /\ clients = <<>> /\ tasks = <<>> /\ pendingStatus = <<>>
  /\ reloads' = reloads + 1
  /\ users' = IF usersFile.exists THEN usersFile.data ELSE <<>>
  /\ nextUserId' = IF usersFile.exists THEN nextId(usersFile.data) ELSE 1
  /\ messages' = IF messagesFile.exists THEN messagesFile.data ELSE <<>>
  /\ nextMessageId' = IF messagesFile.exists THEN nextId(messagesFile.data) ELSE 1
  /\ UNCHANGED <<serverVars, deletes, assigned, usersFile, messagesFile, reply, hookVars>>

\* Array.prototype.sort by timestamp, which is stable: m is put after the
\* elements that do not sort after it
RECURSIVE insertSorted(_, _, _)
insertSorted(sorted, m, descending) ==
  IF sorted = <<>> THEN <<m>>
  ELSE IF (IF descending THEN Head(sorted).timestamp < m.timestamp
                         ELSE Head(sorted).timestamp > m.timestamp)
       THEN <<m>> \o sorted
       ELSE <<Head(sorted)>> \o insertSorted(Tail(sorted), m, descending)

RECURSIVE sortByTimestamp(_, _)
sortByTimestamp(ms, descending) ==
  IF ms = <<>> THEN <<>>
  ELSE insertSorted(sortByTimestamp(SubSeq(ms, 1, Len(ms) - 1), descending),
                    ms[Len(ms)], descending)

\* the visibility filter of lines 195-204; viewer 0 stands for undefined
visible(msg, currentUserId) ==
  IF currentUserId # 0
  THEN ~msg.isPrivate \/ msg.userId = currentUserId \/ msg.recipientId = currentUserId
  ELSE ~msg.isPrivate

RECURSIVE filterVisible(_, _)
filterVisible(ms, currentUserId) ==
  IF ms = <<>> THEN <<>>
  ELSE IF visible(Head(ms), currentUserId)
       THEN <<Head(ms)>> \o filterVisible(Tail(ms), currentUserId)
       ELSE filterVisible(Tail(ms), currentUserId)

\* Array.prototype.slice(-limit) and slice(0, limit) for limit > 0
sliceLast(ms, limit) ==
  IF limit >= Len(ms) THEN ms ELSE SubSeq(ms, Len(ms) - limit + 1, Len(ms))

sliceFirst(ms, limit) ==
  IF limit >= Len(ms) THEN ms ELSE SubSeq(ms, 1, limit)

\* as getMessages, but nothing is filtered out
getMessagesUnfiltered(ms, limit, currentUserId) ==
  IF limit # 0 THEN sliceLast(sortByTimestamp(ms, FALSE), limit)
  ELSE sortByTimestamp(ms, FALSE)

\* FileStorage.getMessages of storage.ts; limit 0 stands for undefined
getMessages(ms, limit, currentUserId) ==
  LET visibleMessages == filterVisible(sortByTimestamp(ms, FALSE), currentUserId) IN
  IF limit # 0 THEN sliceLast(visibleMessages, limit) ELSE visibleMessages

\* FileStorage.getMessages of storage.ts.persistent: newest first
getMessagesPersistent(ms, limit) ==
  IF limit # 0 THEN sliceFirst(sortByTimestamp(ms, TRUE), limit)
  ELSE sortByTimestamp(ms, TRUE)

\* MemStorage.getMessages of unnamed/part_001: oldest first, no filter
getMessagesMem(ms, limit) ==
  IF limit # 0 THEN sliceLast(sortByTimestamp(ms, FALSE), limit)
  ELSE sortByTimestamp(ms, FALSE)

\* getMessages(limit, currentUserId) asked of each backend holding the
\* messages created so far
GetMessages(limit, currentUserId) ==
  /\ reply' = [asked |-> TRUE, limit |-> limit, viewer |-> currentUserId,
               file |-> getMessages(messages, limit, currentUserId),
               persistent |-> getMessagesPersistent(messages, limit),
               mem |-> getMessagesMem(messages, limit)]
  /\ UNCHANGED <<storeVars, serverVars, deletes, nextUserId, assigned, usersFile,
                 messagesFile, reloads, hookVars>>

Usernames == {<<"a">>, <<"b">>, <<"c">>, <<"z">>}

\* ------------------------------------------- the client hook useWebSocket
\* The hook of use-websocket.ts.  A socket and a timer remember the
\* reconnectCount of the render whose connect created them: their handlers
\* read that value, not the state.  A state update is applied by a later
\* render; the events that come in between are handled as they come.  The
\* effect of a render, and the cleanup of an unmount, run in a task of their
\* own after the commit: the events of sockets and timers that come before
\* that task are handled first.

\* the default of the option reconnectAttempts
reconnectAttempts == 5

\* the url argument of a render: null while home-page.tsx knows no user, a
\* url that new WebSocket accepts, or one on which it throws
UrlNull == "null"
UrlOk == "ws://host/ws?userId=1"
UrlThrows == "ws://"
Urls == {UrlNull, UrlOk, UrlThrows}

\* new WebSocket(url) with the handlers of the connect of the render of count k
NewSocket(k) == [readyState |-> "connecting", count |-> k, opened |-> FALSE]

\* WebSocket.close(): a socket connecting or open starts closing, its close
\* event comes later; on a socket closing or closed, and on null, nothing
wsClose(ss, r) ==
  IF r # 0 /\ ss[r].readyState \in {"connecting", "open"}
  THEN [ss EXCEPT ![r].readyState = "closing"]
  ELSE ss

\* clearTimeout(reconnectTimeoutRef.current), guarded by the ref not being null
clearTimer(ts, r) == IF r # 0 THEN [ts EXCEPT ![r].pending = FALSE] ELSE ts

\* connect() gets past its two early returns: the url is not null and the
\* socket of the ref is not open
connectOpens(ss, r, u) == u # UrlNull /\ ~(r # 0 /\ ss[r].readyState = "open")

\* connect() of the render of url u and count k: past the early returns the
\* socket of the ref is closed and a new one is made, unless new WebSocket
\* throws into the catch
connect(ss, r, k, u) ==
  IF ~connectOpens(ss, r, u) THEN ss
  ELSE IF u = UrlThrows THEN wsClose(ss, r)
  ELSE Append(wsClose(ss, r), NewSocket(k))

\* webSocketRef.current after that connect(): the new socket if one was made
connectRef(ss, r, u) ==
  IF connectOpens(ss, r, u) /\ u # UrlThrows THEN Len(ss) + 1 ELSE r

\* the cleanup of the effect: the timer of the ref is cleared, the socket of
\* the ref closed
cleanupSockets == wsClose(sockets, webSocketRef)
cleanupTimers == clearTimer(timers, reconnectTimeoutRef)

\* the first render, of url u, and its effect, which runs connect: no socket
\* and no timer exists whose event could come between the two
Mount(u) ==
  /\ mounted = "initial"
  /\ mounted' = "mounted"
  /\ sockets' = connect(sockets, webSocketRef, reconnectCount, u)
  /\ webSocketRef' = connectRef(sockets, webSocketRef, u)
  /\ UNCHANGED <<reconnectCount, renders, pendingEffect, timers, reconnectTimeoutRef>>
  /\ UNCHANGED <<storeVars, serverVars, deletes, fileVars>>

\* setReconnectCount on a component that is mounted
setReconnectCount(n) == IF mounted = "mounted" THEN n ELSE reconnectCount

\* ws.onopen: the connection is established
SocketOpens(s) ==
  /\ sockets[s].readyState = "connecting"
  /\ Cardinality({z \in 1..Len(sockets) : sockets[z].opened}) < MaxOpens
  /\ sockets' = [sockets EXCEPT ![s].readyState = "open", ![s].opened = TRUE]
  /\ reconnectCount' = setReconnectCount(0)
  /\ UNCHANGED <<mounted, renders, pendingEffect, webSocketRef, timers, reconnectTimeoutRef>>
  /\ UNCHANGED <<storeVars, serverVars, deletes, fileVars>>

\* ws.onclose of socket s: a timer is set while the count its handler sees
\* is below reconnectAttempts
onclose(s) ==
  IF sockets[s].count < reconnectAttempts
  THEN /\ timers' = Append(timers, [count |-> sockets[s].count, pending |-> TRUE])
       /\ reconnectTimeoutRef' = Len(timers) + 1
  ELSE UNCHANGED <<timers, reconnectTimeoutRef>>

\* the connection fails or is lost: the socket closes and its onclose runs
SocketFails(s) ==
  /\ sockets[s].readyState \in {"connecting", "open"}
  /\ sockets' = [sockets EXCEPT ![s].readyState = "closed"]
  /\ onclose(s)
  /\ UNCHANGED <<mounted, reconnectCount, renders, pendingEffect, webSocketRef>>
  /\ UNCHANGED <<storeVars, serverVars, deletes, fileVars>>

\* the close event of a socket that close() was called on
CloseEvent(s) ==
  /\ sockets[s].readyState = "closing"
  /\ sockets' = [sockets EXCEPT ![s].readyState = "closed"]
  /\ onclose(s)
  /\ UNCHANGED <<mounted, reconnectCount, renders, pendingEffect, webSocketRef>>
  /\ UNCHANGED <<storeVars, serverVars, deletes, fileVars>>

\* the callback of a timer: setReconnectCount(prev + 1), then the connect of
\* the render that made the socket whose onclose set the timer; that render
\* had a url on which new WebSocket did not throw
TimerFires(t) ==
  /\ timers[t].pending
  /\ connectOpens(sockets, webSocketRef, UrlOk) => Len(sockets) < MaxSockets
  /\ timers' = [timers EXCEPT ![t].pending = FALSE]
  /\ reconnectCount' = setReconnectCount(reconnectCount + 1)
  /\ sockets' = connect(sockets, webSocketRef, timers[t].count, UrlOk)
  /\ webSocketRef' = connectRef(sockets, webSocketRef, UrlOk)
  /\ UNCHANGED <<mounted, renders, pendingEffect, reconnectTimeoutRef>>
  /\ UNCHANGED <<storeVars, serverVars, deletes, fileVars>>

\* a render after the first, of url u: useState gives the reconnectCount this
\* render sees and useCallback a new connect, which closes over that count
\* and the url: one of the dependencies of line 406 changed (reconnectCount,
\* the url, or a callback: home-page.tsx passes inline callbacks, which are
\* new at every render).  The effect of the render is scheduled; React runs
\* a scheduled effect before it renders again.
Rerender(u) ==
  /\ mounted = "mounted"
  /\ pendingEffect = <<>>
  /\ renders < MaxRenders
  /\ renders' = renders + 1
  /\ pendingEffect' = <<[count |-> reconnectCount, url |-> u]>>
  /\ UNCHANGED <<mounted, reconnectCount, sockets, webSocketRef, timers,
                 reconnectTimeoutRef>>
  /\ UNCHANGED <<storeVars, serverVars, deletes, fileVars>>

\* the scheduled effect runs: the cleanup of the last effect, then the
\* connect of the render that scheduled it, with the count and the url of
\* that render and the sockets and refs as they are now
Effect ==
  /\ mounted = "mounted"
  /\ pendingEffect # <<>>
  /\ connectOpens(cleanupSockets, webSocketRef, pendingEffect[1].url)
       => Len(sockets) < MaxSockets
  /\ timers' = cleanupTimers
  /\ sockets' = connect(cleanupSockets, webSocketRef, pendingEffect[1].count,
                        pendingEffect[1].url)
  /\ webSocketRef' = connectRef(cleanupSockets, webSocketRef, pendingEffect[1].url)
  /\ pendingEffect' = <<>>
  /\ UNCHANGED <<mounted, reconnectCount, renders, reconnectTimeoutRef>>
  /\ UNCHANGED <<storeVars, serverVars, deletes, fileVars>>

\* the component is removed: its state is no longer updated, the cleanup of
\* its effect is scheduled.  A scheduled effect runs before the commit that
\* removes the component.
Unmount ==
  /\ mounted = "mounted"
  /\ pendingEffect = <<>>
  /\ mounted' = "unmounting"
  /\ UNCHANGED <<reconnectCount, renders, pendingEffect, sockets, webSocketRef,
                 timers, reconnectTimeoutRef>>
  /\ UNCHANGED <<storeVars, serverVars, deletes, fileVars>>

\* the cleanup of the effect of the removed component runs
Cleanup ==
  /\ mounted = "unmounting"
  /\ mounted' = "unmounted"
  /\ timers' = cleanupTimers
  /\ sockets' = cleanupSockets
  /\ UNCHANGED <<reconnectCount, renders, pendingEffect, webSocketRef,
                 reconnectTimeoutRef>>
  /\ UNCHANGED <<storeVars, serverVars, deletes, fileVars>>

\* ---------------------------------------------------------- specifications
\* the requests of the known users 1 and 2
ChatParams == {Param(<<"1">>), Param(<<"2">>)}

\* Connection lifecycle and presence: every connection parameter, sockets
\* of users 1 and 2 whose send throws, storage failures and user deletion; no
\* chat payloads.
Next ==
  \/ \E c \in Conns, p \in Params : Accept(c, p, FALSE)
  \/ \E c \in Conns, p \in ChatParams : Accept(c, p, TRUE)
  \/ \E c \in Conns : LookupAll(c)
  \/ \E c \in Conns : LookupUser(c)
  \/ \E c \in Conns : EstablishFails(c)
  \/ \E c \in Conns : BroadcastUserStatus(c)
  \/ \E c \in Conns : Establish(c)
  \/ \E c \in Conns : CloseFrame(c)
  \/ \E c \in Conns : Close(c)
  \/ CloseStatus
  \/ CloseStatusFails
  \/ unhandledRejection
  \/ \E name \in Usernames : deleteUserByUsername(name)

Spec == Init /\ [][Next]_vars

\* Chat: connections of the known users 1 and 2 exchanging payloads; the
\* client of the first may close it.

ChatPayloads ==
  { BadJson, Payload(Undefined), Payload(Str(<<>>)), Payload(Str(<<"h">>)),
    Payload(Str(<<"@", "c", " ", "s">>)) }

NextChat ==
  \/ \E c \in Conns, p \in ChatParams, bad \in BOOLEAN : Accept(c, p, bad)
  \/ \E c \in Conns : Accept(c, BadUrl, FALSE)
  \/ \E c \in Conns : LookupAll(c)
  \/ \E c \in Conns : LookupUser(c)
  \/ \E c \in Conns : BroadcastUserStatus(c)
  \/ \E c \in Conns : Establish(c)
  \/ CloseFrame(1)
  \/ \E c \in Conns : Close(c)
  \/ CloseStatus
  \/ unhandledRejection
  \/ \E c \in Conns, p \in ChatPayloads : Receive(c, p)
  \/ \E c \in Conns : ReceiveRejected(c, Payload(Str(<<"h">>)))
  \/ \E i \in 1..MaxPayloads : Deliver(i)
  \/ \E i \in 1..MaxPayloads : Catch(i)

SpecChat == Init /\ [][NextChat]_vars

\* One connection sending payloads while users are deleted from the store.
StorePayloads ==
  { Payload(Undefined), Payload(Str(<<>>)), Payload(Str(<<"h">>)),
    Payload(Str(<<" ", "h">>)), Payload(Str(<<"@", "b", " ", "s">>)),
    Payload(Str(<<"@", "z", " ", "s">>)), Forged(Str(<<"h">>), 3) }

NextStore ==
  \/ \E p \in ChatParams \cup {BadUrl} : Accept(1, p, FALSE)
  \/ LookupAll(1)
  \/ LookupUser(1)
  \/ BroadcastUserStatus(1)
  \/ Establish(1)
  \/ CloseFrame(1)
  \/ Close(1)
  \/ CloseStatus
  \/ \E p \in StorePayloads : Receive(1, p)
  \/ \E i \in 1..MaxPayloads : Deliver(i)
  \/ \E name \in Usernames : deleteUserByUsername(name)

SpecStore == Init /\ [][NextStore]_vars

\* Presence: connections of the known users binding and closing, with every
\* storage promise fulfilled.  A settled promise resumes its handler (the
\* event loop runs every queued continuation), hence the weak fairness of the
\* resuming steps.  A closing handshake ends (ws destroys the socket after
\* its close timeout at the latest), hence that of Close; a client may stay
\* connected for ever, so CloseFrame has none.  Node ends the process on an
\* unhandled rejection, hence the fairness of unhandledRejection.
NextPresence ==
  \/ \E c \in Conns, p \in ChatParams, bad \in BOOLEAN : Accept(c, p, bad)
  \/ \E c \in Conns : Accept(c, BadUrl, FALSE)
  \/ \E c \in Conns : LookupAll(c)
  \/ \E c \in Conns : LookupUser(c)
  \/ \E c \in Conns : BroadcastUserStatus(c)
  \/ \E c \in Conns : Establish(c)
  \/ \E c \in Conns : CloseFrame(c)
  \/ \E c \in Conns : Close(c)
  \/ CloseStatus
  \/ unhandledRejection

SpecPresence ==
  /\ Init
  /\ [][NextPresence]_vars
  /\ \A c \in Conns : WF_vars(LookupAll(c))
  /\ \A c \in Conns : WF_vars(LookupUser(c))
  /\ \A c \in Conns : WF_vars(BroadcastUserStatus(c))
  /\ \A c \in Conns : WF_vars(Establish(c))
  /\ \A c \in Conns : WF_vars(Close(c))
  /\ WF_vars(CloseStatus)
  /\ WF_vars(unhandledRejection)

\* A crowd: three users connect, and the second user connects once more from
\* a socket whose send throws; the first connection may close, and the
\* closing handshake of a socket the server closed ends.  Every storage
\* promise is fulfilled.
NextCrowd ==
  \/ Accept(1, Param(<<"3">>), FALSE)
  \/ Accept(2, Param(<<"2">>), FALSE)
  \/ Accept(3, Param(<<"1">>), FALSE)
  \/ Accept(4, Param(<<"2">>), TRUE)
  \/ \E c \in Sockets : LookupAll(c)
  \/ \E c \in Sockets : LookupUser(c)
  \/ \E c \in Sockets : BroadcastUserStatus(c)
  \/ \E c \in Sockets : Establish(c)
  \/ CloseFrame(1)
  \/ \E c \in Sockets : Close(c)
  \/ CloseStatus
  \/ unhandledRejection

SpecCrowd == Init /\ [][NextCrowd]_vars

\* the sockets of the two specifications below
Party == 1..MaxParty

\* Fan-out: three users connect, the second from a socket whose send throws,
\* and the first sends a payload.  Every storage promise is fulfilled and no
\* socket closes on its client's side.
NextFanout ==
  \/ Accept(1, Param(<<"1">>), FALSE)
  \/ Accept(2, Param(<<"2">>), TRUE)
  \/ Accept(3, Param(<<"3">>), FALSE)
  \/ \E c \in Party : LookupAll(c)
  \/ \E c \in Party : LookupUser(c)
  \/ \E c \in Party : BroadcastUserStatus(c)
  \/ \E c \in Party : Establish(c)
  \/ Receive(1, Payload(Str(<<"h">>)))
  \/ \E i \in 1..MaxPayloads : Deliver(i)

SpecFanout == Init /\ [][NextFanout]_vars

\* Outage: the same three connections without payloads; the first may be
\* closed by its client.  Every storage promise is fulfilled; the fairness
\* is that of SpecPresence.
NextOutage ==
  \/ Accept(1, Param(<<"1">>), FALSE)
  \/ Accept(2, Param(<<"2">>), TRUE)
  \/ Accept(3, Param(<<"3">>), FALSE)
  \/ \E c \in Party : LookupAll(c)
  \/ \E c \in Party : LookupUser(c)
  \/ \E c \in Party : BroadcastUserStatus(c)
  \/ \E c \in Party : Establish(c)
  \/ CloseFrame(1)
  \/ Close(1)
  \/ CloseStatus
  \/ unhandledRejection

SpecOutage ==
  /\ Init
  /\ [][NextOutage]_vars
  /\ \A c \in Party : WF_vars(LookupAll(c))
  /\ \A c \in Party : WF_vars(LookupUser(c))
  /\ \A c \in Party : WF_vars(BroadcastUserStatus(c))
  /\ \A c \in Party : WF_vars(Establish(c))
  /\ WF_vars(Close(1))
  /\ WF_vars(CloseStatus)
  /\ WF_vars(unhandledRejection)

\* Roster: connections of the known users binding, the first of them also
\* closing, while users are deleted from the store and the list of users is
\* requested over HTTP.
\* Every storage promise is fulfilled and every send works.
NextRoster ==
  \/ \E c \in Conns, p \in ChatParams : Accept(c, p, FALSE)
  \/ \E c \in Conns : LookupAll(c)
  \/ \E c \in Conns : LookupUser(c)
  \/ \E c \in Conns : BroadcastUserStatus(c)
  \/ \E c \in Conns : Establish(c)
  \/ CloseFrame(1)
  \/ Close(1)
  \/ CloseStatus
  \/ \E name \in Usernames : deleteUserByUsername(name)
  \/ \E isAuthenticated \in BOOLEAN : GetUsers(isAuthenticated)
  \/ UsersReply

SpecRoster == Init /\ [][NextRoster]_vars

\* the names given to createUser
NewUsernames == {<<"z">>}

\* The storage on its own: users and messages are created, users deleted,
\* the process restarted and the history read, with no connection open.
NextFile ==
  \/ \E name \in NewUsernames : CreateUser(name)
  \/ \E name \in Usernames : deleteUserByUsername(name)
  \/ \E uid \in 1..MaxUserId : \E ins \in Inserts(uid) : CreateMessage(ins)
  \/ Reload
  \/ \E limit \in 0..MaxLimit, viewer \in 0..2 : GetMessages(limit, viewer)

SpecFile == Init /\ [][NextFile]_vars

\* The hook on its own: the component mounts, sockets open, fail and report
\* their close, timers fire, renders follow, each with its effect after it,
\* and the component unmounts.
NextHook ==
  \/ \E u \in Urls : Mount(u)
  \/ \E s \in 1..Len(sockets) : SocketOpens(s)
  \/ \E s \in 1..Len(sockets) : SocketFails(s)
  \/ \E s \in 1..Len(sockets) : CloseEvent(s)
  \/ \E t \in 1..Len(timers) : TimerFires(t)
  \/ \E u \in Urls : Rerender(u)
  \/ Effect
  \/ Unmount
  \/ Cleanup

SpecHook == Init /\ [][NextHook]_vars

\* ================================================================== claims
Registered(c) == \E k \in 1..Len(clients) : clients[k].ws = c

\* the connection has been put in the registry by its handler
Bound(c) == pc[c] \in {"broadcastUserStatus", "listen", "catch", "bound", "aborted"}

LiveBound(c) == Bound(c) /\ sock[c] = "open"

Healthy(w) == sock[w] = "open" /\ ~sendThrows[w]

\* this step appends frame f to the inbox of socket w
Got(w, f) ==
  /\ Len(inbox'[w]) > Len(inbox[w])
  /\ inbox'[w][Len(inbox[w]) + 1] = f

\* this step is the broadcast of task i's message event
DeliverStep(i) ==
  /\ Len(tasks') = Len(tasks)
  /\ tasks[i].pc = "stored" /\ tasks'[i].pc \in {"done", "thrown"}

\* this step is the presence broadcast of connection c's establishment
EstablishStep(c) ==
  /\ pc[c] = "broadcastUserStatus"
  /\ pc'[c] \in {"listen", "catch"}

\* no handler is in flight or was aborted, no storage promise was rejected,
\* no send throws, and no socket that closed is left in the registry
Settled ==
  /\ failures = 0
  /\ \A c \in Conns :
       /\ pc[c] \in {"none", "rejected", "bound"}
       /\ ~sendThrows[c]
       /\ Registered(c) => sock[c] = "open"

\* C1: a known user is reported online (is in the registry, which is what
\* every presence snapshot reads) if and only if at least one live, bound
\* connection exists for that user id, also with several connections of one
\* user id.  Stated for the settled states, where it fails as well.
C1_OnlineIffLiveBound ==
  Settled =>
    \A k \in 1..Len(users) :
      clientsHas(clients, users[k].id)
        <=> \E c \in Conns : LiveBound(c) /\ userId[c] = users[k].id

\* C2: a message event whose content is addressed to a resolvable @username
\* is delivered only to connections bound to the sender or to the recipient.
C2_PrivateOnlyToParties ==
  \A c \in Conns : \A k \in 1..Len(inbox[c]) :
    (inbox[c][k].type = "message" /\ Recipient(inbox[c][k].content) # NoUser)
      => userId[c] \in {inbox[c][k].userId, Recipient(inbox[c][k].content).id}

\* C3: the broadcast of a public message event (non-empty content, no
\* resolvable @username prefix) delivers it to every connection registered
\* at the moment of the broadcast: none that can take a frame (its socket is
\* open and its send works) is skipped.
C3_PublicReachesEveryRegistered ==
  [][\A i \in 1..Len(tasks) :
       (/\ DeliverStep(i)
        /\ tasks[i].message.content # <<>>
        /\ Recipient(tasks[i].message.content) = NoUser)
         => \A w \in Party :
              (Registered(w) /\ Healthy(w))
                => Got(w, MessageFrame(tasks[i].message, user[tasks[i].ws]))]_vars

\* C4: a send that fails on one registered connection does not stop a
\* broadcast (of a presence snapshot or of a message event): every registered
\* connection whose socket is open and whose send works still gets the frame.
C4_SendFailureIsolated ==
  [][/\ \A c \in Conns :
          EstablishStep(c)
            => \A k \in 1..Len(clients) :
                 Healthy(clients[k].ws)
                   => Got(clients[k].ws, StatusFrame(statusUsers[c], clients))
     /\ \A i \in 1..Len(tasks) :
          DeliverStep(i)
            => \A k \in 1..Len(clients) :
                 Healthy(clients[k].ws)
                   => Got(clients[k].ws, MessageFrame(tasks[i].message, user[tasks[i].ws]))]_vars

\* the request of connection c was read and its identifier is missing or is
\* no positive integer for parseInt
BadIdentity(c) ==
  /\ sock[c] # "none"
  /\ param[c].url
  /\ missingUserId(param[c]) \/ invalidUserId(parseInt(param[c].str))

\* the handler of connection c has looked its identifier up (line 134) and
\* the store knew no user of that id
Unresolved(c) == pc[c] = "getUser" /\ user[c] = NoUser

\* C5: a connection attempt whose user identifier is missing, is no positive
\* integer, or does not resolve to a user the store knows when it is looked
\* up, is closed with code 1008, never becomes bound, is never in the
\* registry, and the step that rejects it leaves the registry unchanged.
\* (A lookup whose promise rejects, and the end of the process, are other
\* outcomes.)
C5_BadIdentityRejected ==
  /\ [](\A c \in Conns :
          BadIdentity(c)
            => closeCode[c] = 1008 /\ sock[c] = "closed" /\ ~Bound(c) /\ ~Registered(c))
  /\ [][\A c \in Conns :
          (pc'[c] = "rejected" /\ pc[c] # "rejected") => clients' = clients]_vars
  /\ [][\A c \in Conns :
          (Unresolved(c) /\ pc'[c] \notin {"getUser", "failed", "exited"})
            => /\ pc'[c] = "rejected"
               /\ closeCode'[c] = 1008 /\ sock'[c] = "closed"
               /\ ~Registered(c)' /\ clients' = clients]_vars

\* C6: every message event delivered to any connection is the event of a
\* message the store holds, so none is broadcast before createMessage has
\* stored it and none is broadcast for a payload whose createMessage failed.
C6_PersistedBeforeBroadcast ==
  \A c \in Conns : \A k \in 1..Len(inbox[c]) :
    inbox[c][k].type = "message"
      => \E j \in 1..Len(messages) :
           /\ messages[j].timestamp = inbox[c][k].timestamp
           /\ messages[j].content = inbox[c][k].content
           /\ messages[j].userId = inbox[c][k].userId

\* one payload was stored and broadcast, the createMessage of another failed
C6_Witness ==
  /\ \E c \in Conns : \E k \in 1..Len(inbox[c]) : inbox[c][k].type = "message"
  /\ \E i \in 1..Len(tasks) : tasks[i].pc = "failed"
  /\ Len(messages) = 1

\* C7: every message handed to createMessage has non-empty content and a
\* sender id that is a user of the store at that moment.
C7_PersistedValid ==
  [][Len(messages') > Len(messages)
       => /\ messages'[Len(messages')].content # <<>>
          /\ find(users', messages'[Len(messages')].userId) # NoUser]_vars

\* C8: a payload whose content is missing or is not a non-empty string is
\* rejected: an error event goes to the originating connection only, nothing
\* is handed to the store, and the connection stays bound.
C8_MalformedRejected ==
  [][Len(tasks') > Len(tasks)
       => LET t == tasks'[Len(tasks')] IN
          (t.payload.json /\ (t.payload.content.t # "string" \/ t.payload.content.s = <<>>))
            => /\ t.pc = "invalid"
               /\ inbox' = IF sock[t.ws] = "open"
                           THEN [inbox EXCEPT ![t.ws] = Append(@, ErrorFrame("Invalid message format"))]
                           ELSE inbox
               /\ messages' = messages
               /\ pc'[t.ws] = "bound" /\ sock'[t.ws] = sock[t.ws]]_vars

\* C9: payloads of one connection are handled in receipt order: an earlier
\* payload is stored before a later one, and a later one is broadcast only
\* after every earlier stored one is broadcast (stated for payloads with
\* non-empty string content).
C9_ReceiptOrder ==
  \A i \in 1..Len(tasks) : \A j \in 1..Len(tasks) :
    (/\ i < j
     /\ tasks[i].ws = tasks[j].ws
     /\ tasks[i].payload.content.s # <<>>
     /\ tasks[j].payload.content.s # <<>>)
      => /\ (tasks[i].message # NoMessage /\ tasks[j].message # NoMessage)
              => tasks[i].message.id < tasks[j].message.id
         /\ tasks[j].pc \in {"done", "thrown"} => tasks[i].pc # "stored"

\* this step is the "close" event of socket c
CloseStep(c) ==
  sock[c] \in {"closing", "closeReceived"} /\ sock'[c] = "closed" /\ pc'[c] = pc[c]

\* C10: when the socket of a bound connection closes, its user is
\* unregistered and a presence broadcast is started; when the socket of a
\* connection that is not bound closes, the registry is unchanged.
C10_CloseUnregisters ==
  [][\A c \in Conns :
       CloseStep(c)
         => IF Bound(c)
            THEN ~clientsHas(clients', userId[c])
                 /\ Len(pendingStatus') = Len(pendingStatus) + 1
            ELSE clients' = clients]_vars

\* the frames appended by this step to the inbox of socket w
NewFrames(w) == { inbox'[w][k] : k \in (Len(inbox[w]) + 1)..Len(inbox'[w]) }

\* how many connection_success frames socket w has received
Welcomes(w) == Cardinality({k \in 1..Len(inbox[w]) : inbox[w][k] = WelcomeFrame})

\* C11: on a successful bind the connection_success event is sent to the new
\* connection exactly once and before the presence broadcast of that bind:
\* when that broadcast is made, the connection holds its one confirmation.
C11_ConfirmationBeforePresence ==
  [][\A c \in Conns :
       (EstablishStep(c) /\ pc'[c] = "listen" /\ Healthy(c))
         => Welcomes(c) = 1]_vars

\* this step is register(userId[c], c): line 153 of connection c's handler
RegisterStep(c) == pc[c] = "getUser" /\ pc'[c] = "broadcastUserStatus"

\* this step is unregister(userId[c]): line 212 of connection c's close listener
UnregisterStep(c) == pc[c] = "bound" /\ CloseStep(c)

\* the user ids a user_status frame lists as online
OnlineIds(f) == { f.users[k].id : k \in {j \in 1..Len(f.users) : f.users[j].status = Online} }

\* this step is the response of a GET /api/users handler with the list
UsersReplyStep == Len(pendingUsers') < Len(pendingUsers)

\* C12: isOnline(u) is true right after register(u, c) and false right after
\* unregister(u), and every presence snapshot that is sent (a user_status
\* frame, or the list GET /api/users answers with) lists as online exactly
\* the user ids that are in the registry when it is sent.
C12_SnapshotIsRegistry ==
  [][/\ \A c \in Conns : RegisterStep(c) => clientsHas(clients', userId[c])
     /\ \A c \in Conns : UnregisterStep(c) => ~clientsHas(clients', userId[c])
     /\ \A w \in Conns : \A f \in NewFrames(w) :
          f.type = "user_status"
            => OnlineIds(f) = { clients[j].id : j \in 1..Len(clients) }
     /\ UsersReplyStep
          => OnlineIds(usersReply') = { clients[j].id : j \in 1..Len(clients) }]_vars

\* C13: every registry mutation is followed by a recomputed presence
\* broadcast: the step that registers or unregisters starts a
\* broadcastUserStatus call, and after it, at some time, a presence snapshot
\* is computed from the registry as it is then and broadcast (by that call
\* or by another).
C13_MutationThenBroadcast ==
  /\ [][(clients' # clients /\ Running')
          => /\ stale'
             /\ \/ \E c \in Party : RegisterStep(c)
                \/ Len(pendingStatus') = Len(pendingStatus) + 1]_vars
  /\ stale ~> ~stale

\* this step is the message event of task i, whose createMessage stored it
PersistStep(i) == i = Len(tasks) + 1 /\ Len(tasks') = i /\ tasks'[i].pc = "stored"

\* the content string of task i's payload
Content(i) == tasks'[i].payload.content.s

\* the message event the handler of task i builds from the stored message
Event(i) == MessageFrame(tasks'[i].message, user[tasks'[i].ws])

\* C14: a payload "@<username> <rest>" whose username resolves to a known
\* user gives a private message event: recipientId is the resolved user's
\* id, recipientUsername is set, and the content is <rest> (stated for a
\* recipient other than the sender).
C14_ResolvedIsPrivate ==
  [][\A i \in 1..Len(tasks') :
       (/\ PersistStep(i)
        /\ Recipient(Content(i)) # NoUser
        /\ Recipient(Content(i)).id # userId[tasks'[i].ws])
         => /\ tasks'[i].message.isPrivate
            /\ tasks'[i].message.recipientId = Recipient(Content(i)).id
            /\ Event(i).content = Remainder(Content(i))
            /\ "isPrivate" \in DOMAIN Event(i)
            /\ "recipientId" \in DOMAIN Event(i)
            /\ "recipientUsername" \in DOMAIN Event(i)]_vars

\* the payload of a task starts with @<token>, whitespace and a remainder
Addressed(s) == Addressee(s) # <<>> /\ Remainder(s) # <<>>

\* C15: a payload "@<token> <rest>" whose token resolves to no known user is
\* not an error: it is handed to the store and routed as a public message
\* (not private, no recipient) whose content is the entire original string.
C15_UnknownTokenIsPublic ==
  [][/\ Len(tasks') > Len(tasks)
          => LET t == tasks'[Len(tasks')] IN
             (t.payload.json /\ t.payload.content.t = "string"
                /\ Addressed(t.payload.content.s)
                /\ Recipient(t.payload.content.s) = NoUser)
               => t.pc = "stored" /\ inbox' = inbox
     /\ \A i \in 1..Len(tasks') :
          (PersistStep(i) /\ Addressed(Content(i)) /\ Recipient(Content(i)) = NoUser)
            => /\ ~tasks'[i].message.isPrivate
               /\ tasks'[i].message.recipientId = 0
               /\ tasks'[i].message.content = Content(i)
               /\ Event(i).content = Content(i)
               /\ "recipientId" \notin DOMAIN Event(i)
               /\ "recipientUsername" \notin DOMAIN Event(i)]_vars

\* "@z s" (no user z) was stored whole and its event delivered to the sender
C15_Witness ==
  \E i \in 1..Len(tasks) :
    /\ tasks[i].payload.content = Str(<<"@", "z", " ", "s">>)
    /\ tasks[i].pc = "done"
    /\ \E k \in 1..Len(inbox[tasks[i].ws]) :
         /\ inbox[tasks[i].ws][k].type = "message"
         /\ inbox[tasks[i].ws][k].content = <<"@", "z", " ", "s">>

\* C16: an accepted payload without a resolvable @username prefix gives a
\* public message (not private, no recipient) whose stored and broadcast
\* content is the payload content with surrounding whitespace trimmed
\* (stated for payloads whose trimmed content is non-empty).
C16_PublicIsTrimmed ==
  [][\A i \in 1..Len(tasks') :
       (PersistStep(i) /\ Recipient(Content(i)) = NoUser /\ Trim(Content(i)) # <<>>)
         => /\ ~tasks'[i].message.isPrivate
            /\ tasks'[i].message.recipientId = 0
            /\ tasks'[i].message.content = Trim(Content(i))
            /\ Event(i).content = Trim(Content(i))]_vars

\* C17: the event of an accepted public payload reaches the sending
\* connection and every other bound connection, also when one user id has
\* opened several connections (stated for sockets whose send works).
C17_SenderInAudience ==
  [][\A i \in 1..Len(tasks) :
       (/\ DeliverStep(i)
        /\ tasks[i].message.content # <<>>
        /\ Recipient(tasks[i].message.content) = NoUser
        /\ \A c \in Conns : ~sendThrows[c])
         => \A c \in Conns :
              (pc[c] = "bound" /\ sock[c] = "open")
                => Got(c, MessageFrame(tasks[i].message, user[tasks[i].ws]))]_vars

\* this step ends the handling of a payload of socket w with an error: the
\* frame is not JSON, the payload is malformed, or its createMessage rejected
ErrorStep(w) ==
  \/ /\ Len(tasks') > Len(tasks)
     /\ tasks'[Len(tasks')].ws = w
     /\ tasks'[Len(tasks')].pc \in {"unparsed", "invalid"}
  \/ /\ Len(tasks') = Len(tasks)
     /\ \E i \in 1..Len(tasks) :
          tasks[i].ws = w /\ tasks[i].pc = "rejected" /\ tasks'[i].pc = "failed"

\* C18: an error while handling a bound connection's payload (unparseable
\* frame, malformed payload, persistence failure) is reported with an error
\* event to that connection only, and the connection is neither closed nor
\* unregistered: it stays bound, which is all a later payload needs to be
\* accepted.
C18_ErrorKeepsBound ==
  [][\A w \in Conns :
       ErrorStep(w)
         => /\ \A d \in Conns : d # w => inbox'[d] = inbox[d]
            /\ sock[w] = "open"
                 => /\ Len(inbox'[w]) = Len(inbox[w]) + 1
                    /\ inbox'[w][Len(inbox'[w])].type = "error"
            /\ clients' = clients
            /\ sock' = sock
            /\ pc'[w] = "bound"]_vars

\* with two connections registered, one got the error event of a malformed
\* payload and of a failed createMessage, and its next payload was handled
C18_Witness ==
  /\ Len(clients) = 2
  /\ Len(tasks) = 2
  /\ tasks[1].ws = tasks[2].ws
  /\ tasks[1].pc \in {"invalid", "failed"}
  /\ tasks[2].pc = "done"
  /\ \E j, k \in 1..Len(inbox[tasks[1].ws]) :
       /\ j < k
       /\ inbox[tasks[1].ws][j].type = "error"
       /\ inbox[tasks[1].ws][k].type = "message"

\* the user ids a sequence of user records or snapshot entries lists
Ids(us) == { us[k].id : k \in 1..Len(us) }

\* C19: a user id is in a presence snapshot if and only if the user store
\* knows it when the snapshot is computed (lines 94-99, in the step that
\* sends it), whether or not it has a connection.
C19_SnapshotListsKnownUsers ==
  [][\A w \in Conns : \A f \in NewFrames(w) :
       f.type = "user_status" => Ids(f.users) = Ids(users)]_vars

\* C20: registering a user id that has a registered connection replaces
\* that entry with the new connection and leaves the prior socket as it is;
\* the registry never holds two entries of one user id.
C20_LastConnectionWins ==
  /\ [](\A j, k \in 1..Len(clients) : clients[j].id = clients[k].id => j = k)
  /\ [][\A c \in Conns :
          RegisterStep(c)
            => /\ \E k \in 1..Len(clients') :
                    clients'[k] = [id |-> userId[c], ws |-> c]
               /\ Len(clients') =
                    IF clientsHas(clients, userId[c]) THEN Len(clients)
                    ELSE Len(clients) + 1
               /\ sock' = sock]_vars

\* the second connection of a user took the registry entry of the first,
\* whose socket is still open
C20_Witness ==
  \E c, d \in Conns :
    /\ c # d /\ userId[c] = userId[d]
    /\ pc[c] = "bound" /\ sock[c] = "open" /\ ~Registered(c)
    /\ Registered(d) /\ sock[d] = "open"
    /\ Len(clients) = 1

\* C21: the sender id of every persisted and every broadcast message is the
\* user id the originating connection was bound to at establishment, and the
\* record and the event are those of the payload's content alone: a userId
\* field supplied in the payload changes neither.
C21_SenderIsBoundUser ==
  [][\A i \in 1..Len(tasks') :
       PersistStep(i)
         => /\ tasks'[i].message.userId = parseInt(param[tasks'[i].ws].str).val
            /\ \E now \in Now :
                 tasks'[i].message = createMessage(Content(i), userId[tasks'[i].ws], now)
            /\ messages' = Append(messages, tasks'[i].message)
            /\ Event(i).userId = userId[tasks'[i].ws]
            /\ Event(i).content = Content(i)]_vars

\* a payload carrying userId 3 was stored and broadcast under the id of the
\* connection that sent it
C21_Witness ==
  \E i \in 1..Len(tasks) :
    /\ tasks[i].payload = Forged(Str(<<"h">>), 3)
    /\ tasks[i].pc = "done"
    /\ tasks[i].message.userId = userId[tasks[i].ws]
    /\ userId[tasks[i].ws] # 3
    /\ \E k \in 1..Len(inbox[tasks[i].ws]) :
         /\ inbox[tasks[i].ws][k].type = "message"
         /\ inbox[tasks[i].ws][k].userId = userId[tasks[i].ws]

\* C22: the storage backends answer getMessages(limit) alike: after any
\* sequence of createMessage calls each of them returns the same messages in
\* the same order (stated for logs of public messages and no viewer id).
C22_BackendsAgree ==
  (/\ reply.asked
   /\ reply.viewer = 0
   /\ \A k \in 1..Len(messages) : ~messages[k].isPrivate)
    => /\ reply.file = reply.mem
       /\ reply.file = reply.persistent

\* C26: FileStorage.getMessages returns a private message only to a viewer
\* who is its sender or its recipient, and none when no viewer id is given.
C26_PrivateOnlyToParties ==
  reply.asked
    => \A k \in 1..Len(reply.file) :
         reply.file[k].isPrivate
           => /\ reply.viewer # 0
              /\ reply.viewer \in {reply.file[k].userId, reply.file[k].recipientId}

\* the log holds a private message between users 3 and 2 and a public one;
\* viewer 1 was answered with the public one alone
C26_Witness ==
  /\ reply.asked /\ reply.viewer = 1 /\ reply.limit = 0
  /\ Len(messages) = 2 /\ Len(reply.file) = 1
  /\ \E k \in 1..2 :
       /\ messages[k].isPrivate
       /\ messages[k].userId = 3 /\ messages[k].recipientId = 2
  /\ ~reply.file[1].isPrivate

\* the ids of a list of records strictly increase
Increasing(records) ==
  \A j, k \in 1..Len(records) : j < k => records[j].id < records[k].id

C28_UserIdNeverReused ==
  [][Len(users') > Len(users)
       => /\ users'[Len(users')].id \notin assigned
          /\ find(users, users'[Len(users')].id) = NoUser]_vars

\* C23: the close of a connection removes only its own registry entry: when
\* an older connection of a user closes while a newer, open connection of
\* that user holds the entry, the entry stays and the user stays online.
C23_CloseRemovesOwnEntry ==
  [][\A c \in Conns :
       (/\ UnregisterStep(c)
        /\ \E k \in 1..Len(clients) :
             /\ clients[k].id = userId[c]
             /\ clients[k].ws # c
             /\ sock[clients[k].ws] = "open")
         => clients' = clients /\ clientsHas(clients', userId[c])]_vars

\* C24: once a socket that was put in the registry has closed, for whatever
\* reason, the registry eventually holds no entry for that socket.
C24_ClosedSocketLeavesRegistry ==
  \A c \in Conns : (Registered(c) /\ sock[c] = "closed") ~> ~Registered(c)

\* no connection handler and no close listener is waiting for the store, and
\* no socket is in its closing handshake
Quiescent ==
  /\ pendingStatus = <<>>
  /\ \A c \in Sockets :
       /\ pc[c] \notin {"getAllUsers", "getUser", "broadcastUserStatus", "listen", "catch"}
       /\ sock[c] \notin {"closing", "closeReceived"}

\* C25: when every handler has completed, the last user_status event each
\* registered open connection received lists as online exactly the user ids
\* in the registry, whatever the interleaving of the presence broadcasts of
\* concurrent binds and closes.
C25_LastSnapshotIsRegistry ==
  Quiescent
    => \A w \in Sockets :
         (Registered(w) /\ sock[w] = "open")
           => \E k \in 1..Len(inbox[w]) :
                /\ inbox[w][k].type = "user_status"
                /\ \A j \in (k + 1)..Len(inbox[w]) : inbox[w][j].type # "user_status"
                /\ OnlineIds(inbox[w][k]) = { clients[j].id : j \in 1..Len(clients) }

\* C29: the hook makes at most reconnectAttempts reconnection attempts
\* between two successful opens: as long as no socket has opened, it has
\* created the first socket and at most reconnectAttempts more.
C29_ReconnectBudget ==
  (\A s \in 1..Len(sockets) : ~sockets[s].opened)
    => Len(sockets) <= 1 + reconnectAttempts

\* C30: after the cleanup of the unmount no reconnect timer is pending, and
\* no step sets a timer or creates a WebSocket.
C30_NothingAfterUnmount ==
  /\ [](mounted = "unmounted" => \A t \in 1..Len(timers) : ~timers[t].pending)
  /\ [][mounted = "unmounted"
          => Len(timers') = Len(timers) /\ Len(sockets') = Len(sockets)]_vars

====
